---- MODULE Spec2Model ----
(***************************************************************************)
(* The two plotting scripts of scripts/plotScripts: epa_tau.py and         *)
(* tau_path.py.  Each run is a linear procedure; the state is the script's *)
(* variables, the current figure and the files written so far.             *)
(*                                                                         *)
(* Strings that the code takes apart (paths, the calcIndex argument, the   *)
(* plot names) are sequences of one-character strings.  A JSON value that  *)
(* may be null is <<>> for null and <<v>> for the number v.  Numbers are   *)
(* integers.  Axis limits are powers of ten and are stored by exponent.    *)
(***************************************************************************)
EXTENDS Integers, Sequences, FiniteSets, TLC

VARIABLES script, args, pc, data, data2, calc, calcIndex, tau, linewidths,
          energies, mu, it, y, curves, bands, ylim, saved, err

vars == <<script, args, pc, data, data2, calc, calcIndex, tau, linewidths,
          energies, mu, it, y, curves, bands, ylim, saved, err>>

(* ------------------------------ bounds --------------------------------- *)

\* most calculations (temperature / chemical potential pairs) stored in a file
MaxCalc == 2
\* most wavevectors (path points) of a calculation
MaxPoints == 3

\* numbers of bands a file may hold
BandCounts == {1, 2}

(* ------------------------------ strings -------------------------------- *)

Digits == <<"0", "1", "2", "3", "4", "5", "6", "7", "8", "9">>

IsDigit(c) == \E i \in 1..10 : Digits[i] = c

DigitVal(c) == (CHOOSE i \in 1..10 : Digits[i] = c) - 1

RECURSIVE DigitsVal(_)
DigitsVal(s) ==
    IF s = <<>> THEN 0
    ELSE 10 * DigitsVal(SubSeq(s, 1, Len(s) - 1)) + DigitVal(s[Len(s)])

\* a conversion that falls back to the default index 0
intOrDefault(s) == [ok |-> TRUE, val |-> 0]

\* int(text): an optional sign, then one or more decimal digits; anything
\* else is a ValueError.  (The arguments drawn below hold no blanks and no
\* underscores, which int() would also accept in places.)
int(s) ==
    LET signed == s # <<>> /\ s[1] \in {"-", "+"}
        body   == IF signed THEN Tail(s) ELSE s
        ok     == body # <<>> /\ \A i \in 1..Len(body) : IsDigit(body[i])
    IN  [ok  |-> ok,
         val |-> IF ~ok THEN 0
                 ELSE IF signed /\ s[1] = "-" THEN 0 - DigitsVal(body)
                 ELSE DigitsVal(body)]

\* str.rfind as a 1-based position, 0 when the character does not occur
rfind(p, c) ==
    LET hits == {i \in 1..Len(p) : p[i] = c}
    IN  IF hits = {} THEN 0 ELSE CHOOSE i \in hits : \A j \in hits : j <= i

\* os.path.splitext: the extension starts at the last dot of the last path
\* component, unless that component has only dots before it
splitext(p) ==
    LET sepIndex == rfind(p, "/")
        dotIndex == rfind(p, ".")
    IN  IF dotIndex > sepIndex
           /\ \E i \in (sepIndex + 1)..(dotIndex - 1) : p[i] # "."
        THEN <<SubSeq(p, 1, dotIndex - 1), SubSeq(p, dotIndex, Len(p))>>
        ELSE <<p, <<>>>>

\* the name used as it is
lowerSkipped(s) == s

\* str.lower on the letters the plot names hold
lower(s) == [i \in 1..Len(s) |-> IF s[i] = "G" THEN "g" ELSE s[i]]

\* the loop running over the linewidth plot's name first
PlotNamesSwapped == << <<"G", "a", "m", "m", "a">>, <<"t", "a", "u">> >>

\* the names the loop of epa_tau.py runs over: 'tau' and 'Gamma'
PlotNames == << <<"t", "a", "u">>, <<"G", "a", "m", "m", "a">> >>

DotPng == <<".", "p", "n", "g">>

\* os.path.splitext(jfileName)[0] + ".{}.png".format(name.lower())
EpaPlotFileName(jfileName, name) ==
    splitext(jfileName)[1] \o <<".">> \o lower(name) \o DotPng

\* os.path.splitext(jfileName)[0] + ".tau.pdf"
PathPlotFileName(jfileName) ==
    splitext(jfileName)[1] \o <<".", "t", "a", "u", ".", "p", "d", "f">>

(* ------------------------------ numbers -------------------------------- *)

RECURSIVE FloorLog10(_)
\* np.floor(np.log10(v)) for an integer v >= 1
FloorLog10(v) == IF v < 10 THEN 0 ELSE 1 + FloorLog10(v \div 10)

RECURSIVE Pow10(_)
Pow10(e) == IF e = 0 THEN 1 ELSE 10 * Pow10(e - 1)

\* np.ceil(np.log10(v)) for an integer v >= 1
CeilLog10(v) ==
    IF Pow10(FloorLog10(v)) = v THEN FloorLog10(v) ELSE FloorLog10(v) + 1

Min(S) == CHOOSE v \in S : \A w \in S : v <= w
Max(S) == CHOOSE v \in S : \A w \in S : w <= v

\* a Python index i into a sequence of length n: in bounds, and the 1-based
\* position it names (negative indices count from the end)
InBounds(i, n) == 0 - n <= i /\ i < n
PyPos(i, n) == IF i < 0 THEN i + n + 1 ELSE i + 1

\* array.flatten() of a (points x bands) array
RECURSIVE flatten(_)
flatten(a) == IF a = <<>> THEN <<>> ELSE Head(a) \o flatten(Tail(a))

Range(s) == {s[i] : i \in 1..Len(s)}

(* ------------------------------ the files ------------------------------ *)

JNull == <<>>
JNum(v) == <<v>>

\* the keys the scripts read from the relaxation-time file
EpaKeys == {"relaxationTimes", "particleType", "energies", "linewidths",
            "chemicalPotentials", "temperatures", "energyUnit",
            "relaxationTimeUnit", "linewidthsUnit"}
PathKeys == {"relaxationTimes", "linewidths", "chemicalPotentials",
             "temperatures", "particleType", "relaxationTimeUnit"}
\* the keys tau_path.py reads from the band-structure file
Path2Keys == {"highSymLabels", "highSymIndices", "wavevectorIndices",
              "energies", "energyUnit"}

\* the key sets of the files drawn: complete, or lacking one key
KeySets(all) == {all} \cup {all \ {k} : k \in all}

ParticleTypes == {"phonon", "electron"}
\* epa_tau.py uses the particle type in a label and in the x-axis range
\* only; its files are drawn with one
EpaParticleTypes == {"phonon"}

\* the numbers stored for calculation c (0-based), point k, band b
TauValue(c, k, b) == (3 * k - 1) * Pow10(b - 1) * (c + 1)
LwValue(c, k, b) == k + b + c
EnergyValue(c, k, b) == 10 * b + k + c
MuValue(c) == c + 3

\* a relaxation-time file: its keys, the number of calculations, and the
\* per-calculation scalars.  The arrays of a calculation are drawn when the
\* script selects it (Calcs below).
Files(all, pts) ==
    {[keys |-> ks, nCalc |-> n, particleType |-> pt,
      chemicalPotentials |-> [c \in 1..n |-> MuValue(c - 1)]] :
        ks \in KeySets(all), n \in 1..MaxCalc, pt \in pts}

Cells(nk, nb) == (1..nk) \X (1..nb)

\* what the file stores for calculation c (0-based): arrays of dimensions
\* (ik, ib); relaxation times are null at the cells of `nulls`, linewidths
\* are all zero when lwZero.  tau_path.py only shades with the linewidths,
\* epa_tau.py takes their logarithm: it is given the files with none too.
CalcOf(c, nk, nb, nulls, lwZero) ==
    [nk |-> nk, nb |-> nb,
     relaxationTimes |->
         [k \in 1..nk |-> [b \in 1..nb |->
             IF <<k, b>> \in nulls THEN JNull ELSE JNum(TauValue(c, k, b))]],
     linewidths |->
         [k \in 1..nk |-> [b \in 1..nb |->
             IF lwZero THEN 0 ELSE LwValue(c, k, b)]],
     energies |->
         [k \in 1..nk |-> [b \in 1..nb |-> EnergyValue(c, k, b)]]]

CalcsOfShape(c, nk, nb, lwZeros) ==
    {CalcOf(c, nk, nb, nulls, lwZero) :
        nulls \in SUBSET Cells(nk, nb), lwZero \in lwZeros}

Calcs(c, lwZeros) ==
    UNION {CalcsOfShape(c, sh[1], sh[2], lwZeros) :
              sh \in (1..MaxPoints) \X BandCounts}

\* a band-structure file on a path of nk points with nb bands
Files2(nk, nb) ==
    {[keys |-> ks,
      wavevectorIndices |-> [k \in 1..nk |-> k - 1],
      energies |-> [k \in 1..nk |-> [b \in 1..nb |-> EnergyValue(0, k, b)]]] :
        ks \in KeySets(Path2Keys)}

\* the first key of the sequence ks that the file d lacks, "" when none
FirstMissing(ks, d) ==
    LET miss == {i \in 1..Len(ks) : ks[i] \notin d.keys}
    IN  IF miss = {} THEN ""
        ELSE ks[CHOOSE i \in miss : \A j \in miss : i <= j]

(* --------------------------- command lines ----------------------------- *)

\* "a.j", "d.d/a", ".a", "a.k"
PathAJ == <<"a", ".", "j">>
PathDir == <<"d", ".", "d", "/", "a">>
PathHidden == <<".", "a">>
PathAK == <<"a", ".", "k">>

CalcIndexArgs == {<<"0">>, <<"1">>, <<"-", "1">>, <<"-", "2">>, <<"x">>,
                  <<"-">>}

EpaArgs == {[INPUT |-> p, INPUT2 |-> <<>>, calcIndex |-> a] :
                p \in {PathAJ, PathDir, PathHidden}, a \in CalcIndexArgs}

PathArgs == {[INPUT |-> pp[1], INPUT2 |-> pp[2], calcIndex |-> a] :
                pp \in {<<PathAJ, PathAK>>, <<PathDir, PathHidden>>},
                a \in CalcIndexArgs}

(* ------------------------------ errors --------------------------------- *)

NoErr == [kind |-> "", msg |-> ""]

MsgCalcIndex == "calcIndex should be an integer"
MsgKeyOnly == "relaxationTimes"
MsgNoTau == "relaxation times not found.Are you using the correct input json file?"
MsgNoLabels == "highSymLabels not found. Are you using the correct input json file?"
MsgIntLiteral == "invalid literal for int() with base 10"
MsgIndex == "index is out of bounds"
MsgEmptyMin == "zero-size array to reduction operation minimum which has no identity"
MsgNoPoints == "Not enough points in path?"

Raise(kind, msg) == pc' = "error" /\ err' = [kind |-> kind, msg |-> msg]

NoneToZero(x) == IF x = JNull THEN 0 ELSE x[1]

\* the replacement on every element of a (points x bands) array
NoneToZeroArray(a) ==
    [k \in 1..Len(a) |-> [b \in 1..Len(a[k]) |-> NoneToZero(a[k][b])]]

Positive(v) == v > 0
NonZero(v) == v # 0

Init ==
    /\ script \in {"epa_tau", "tau_path"}
    /\ args \in (IF script = "epa_tau" THEN EpaArgs ELSE PathArgs)
    /\ pc = "start"
    /\ data = <<>> /\ data2 = <<>> /\ calc = <<>>
    /\ calcIndex = <<>> /\ mu = <<>>
    /\ tau = <<>> /\ linewidths = <<>> /\ energies = <<>>
    /\ it = 1 /\ y = <<>>
    /\ curves = <<>> /\ bands = <<>> /\ ylim = <<>>
    /\ saved = <<>>
    /\ err = NoErr

(* ------------------------------ epa_tau.py ----------------------------- *)

\* plt.ylim(0.1, 1000), as exponents of ten
FixedYMinExp == -1
FixedYMaxExp == 3

\* both limits rounded up
LogLimitsCeil(v) == <<CeilLog10(Min(Range(v))), CeilLog10(Max(Range(v)))>>

\* ymin, ymax of the values v (not empty, all >= 1), as exponents of ten
LogLimits(v) == <<FloorLog10(Min(Range(v))), CeilLog10(Max(Range(v)))>>

\* lines 23-27
EpaParseIndex ==
    /\ script = "epa_tau" /\ pc = "start"
    /\ LET r == int(args.calcIndex)
       IN  IF ~r.ok
           THEN Raise("ValueError", MsgCalcIndex) /\ UNCHANGED calcIndex
           ELSE calcIndex' = r.val /\ pc' = "load" /\ UNCHANGED err
    /\ UNCHANGED <<script, args, data, data2, calc, tau, linewidths, energies,
                   mu, it, y, curves, bands, ylim, saved>>

\* lines 29-38
EpaLoad ==
    /\ script = "epa_tau" /\ pc = "load"
    /\ \E d \in Files(EpaKeys, EpaParticleTypes) :
        /\ data' = d
        /\ IF "relaxationTimes" \notin d.keys
           THEN Raise("KeyError", MsgNoTau)
           ELSE pc' = "unpack" /\ UNCHANGED err
    /\ UNCHANGED <<script, args, data2, calc, calcIndex, tau, linewidths,
                   energies, mu, it, y, curves, bands, ylim, saved>>

\* lines 40-48
EpaUnpack ==
    /\ script = "epa_tau" /\ pc = "unpack"
    /\ LET k == FirstMissing(<<"particleType", "relaxationTimes", "energies",
                               "linewidths", "chemicalPotentials",
                               "temperatures">>, data)
       IN  IF k # "" THEN Raise("KeyError", k)
           ELSE pc' = "select" /\ UNCHANGED err
    /\ UNCHANGED <<script, args, data, data2, calc, calcIndex, tau, linewidths,
                   energies, mu, it, y, curves, bands, ylim, saved>>

\* lines 50-56; the None values of line 44 become 0 in the selected rows
EpaSelect ==
    /\ script = "epa_tau" /\ pc = "select"
    /\ IF ~InBounds(calcIndex, data.nCalc)
       THEN /\ Raise("IndexError", MsgIndex)
            /\ UNCHANGED <<calc, tau, linewidths, energies, mu>>
       ELSE LET pos == PyPos(calcIndex, data.nCalc)
            IN  \E c \in Calcs(pos - 1, BOOLEAN) :
                 /\ calc' = c
                 /\ linewidths' = flatten(c.linewidths)
                 /\ tau' = flatten(NoneToZeroArray(c.relaxationTimes))
                 /\ mu' = data.chemicalPotentials[pos]
                 /\ energies' = [i \in 1..(c.nk * c.nb) |->
                                    flatten(c.energies)[i] - mu']
                 /\ pc' = "plot" /\ UNCHANGED err
    /\ UNCHANGED <<script, args, data, data2, calcIndex, it, y, curves, bands,
                   ylim, saved>>

\* lines 58-77 of the iteration `it`: a new figure, the scatter, the labels
EpaPlot ==
    /\ script = "epa_tau" /\ pc = "plot"
    /\ y' = IF it = 1 THEN tau ELSE linewidths
    /\ curves' = <<y'>>
    /\ ylim' = <<>>
    /\ LET k == FirstMissing(<<"energyUnit",
                               IF it = 1 THEN "relaxationTimeUnit"
                                         ELSE "linewidthsUnit",
                               "particleType">>, data)
       IN  IF k # "" THEN Raise("KeyError", k)
           ELSE pc' = "limits" /\ UNCHANGED err
    /\ UNCHANGED <<script, args, data, data2, calc, calcIndex, tau, linewidths,
                   energies, mu, it, bands, saved>>

\* lines 79-84
EpaLimits ==
    /\ script = "epa_tau" /\ pc = "limits"
    /\ y' = SelectSeq(y, Positive)
    /\ IF y' = <<>>
       THEN Raise("ValueError", MsgEmptyMin) /\ UNCHANGED ylim
       ELSE ylim' = LogLimits(y') /\ pc' = "save" /\ UNCHANGED err
    /\ UNCHANGED <<script, args, data, data2, calc, calcIndex, tau, linewidths,
                   energies, mu, it, curves, bands, saved>>

\* lines 86-89, and the step of the loop of line 58
EpaSave ==
    /\ script = "epa_tau" /\ pc = "save"
    /\ ylim' = <<FixedYMinExp, FixedYMaxExp>>
    /\ saved' = Append(saved, EpaPlotFileName(args.INPUT, PlotNames[it]))
    /\ IF it = Len(PlotNames)
       THEN pc' = "done" /\ UNCHANGED it
       ELSE pc' = "plot" /\ it' = it + 1
    /\ UNCHANGED <<script, args, data, data2, calc, calcIndex, tau, linewidths,
                   energies, mu, y, curves, bands, err>>

(* ------------------------------ tau_path.py ---------------------------- *)

\* magFactor of lines 57-60
MagPhonon == 10
MagOther == 5

\* column ib of a (points x bands) array: tau[:,ib]
Column(a, ib) == [k \in 1..Len(a) |-> a[k][ib]]

\* lines 18-26 on one band y: `indexes` holds one array, the positions of
\* the zeros, so the loop body runs once on all of them.  y[index-1] reads
\* the old values at the Python indices index-1 (an index of -1 names the
\* last point) and raises IndexError when one of them is out of bounds;
\* then y[index+1] is tried the same way.
ReplaceZeros(y0) ==
    LET n     == Len(y0)
        index == {i \in 0..(n - 1) : y0[i + 1] = 0}
        from(d) == [k \in 1..n |->
                       IF k - 1 \in index THEN y0[PyPos(k - 1 + d, n)]
                       ELSE y0[k]]
    IN  IF \A i \in index : InBounds(i - 1, n)
        THEN [ok |-> TRUE, y |-> from(-1)]
        ELSE IF \A i \in index : InBounds(i + 1, n)
        THEN [ok |-> TRUE, y |-> from(1)]
        ELSE [ok |-> FALSE, y |-> y0]

\* energy = energy - mu: a new array, the one passed is left as it was
SubtractRebound(energy, m) == energy

\* line 72, energy -= mu: the subtraction is in place, so the array that
\* was passed (the script's `energies`) is the one that changes
SubtractInPlace(energy, m) ==
    [k \in 1..Len(energy) |-> [b \in 1..Len(energy[k]) |-> energy[k][b] - m]]

\* lines 69-74: the shift when mu is given (<<m>>), none when mu is None (<<>>)
ShiftEnergy(energy, muArg) ==
    IF muArg # <<>> THEN SubtractInPlace(energy, muArg[1]) ELSE energy

\* lines 120-133
PathLoad ==
    /\ script = "tau_path" /\ pc = "start"
    /\ \E d \in Files(PathKeys, ParticleTypes) :
        /\ data' = d
        /\ IF "relaxationTimes" \notin d.keys
           THEN Raise("KeyError", MsgNoTau)
           ELSE pc' = "unpack" /\ UNCHANGED err
    /\ UNCHANGED <<script, args, data2, calc, calcIndex, tau, linewidths,
                   energies, mu, it, y, curves, bands, ylim, saved>>

\* lines 135-139
PathUnpack ==
    /\ script = "tau_path" /\ pc = "unpack"
    /\ LET k == FirstMissing(<<"relaxationTimes", "linewidths",
                               "chemicalPotentials", "temperatures">>, data)
       IN  IF k # "" THEN Raise("KeyError", k)
           ELSE pc' = "select" /\ UNCHANGED err
    /\ UNCHANGED <<script, args, data, data2, calc, calcIndex, tau, linewidths,
                   energies, mu, it, y, curves, bands, ylim, saved>>

\* lines 141-148; the None values of lines 128-130 are 0 in the selected rows
PathSelect ==
    /\ script = "tau_path" /\ pc = "select"
    /\ LET r == int(args.calcIndex)
       IN  IF ~r.ok
           THEN /\ Raise("ValueError", MsgIntLiteral)
                /\ UNCHANGED <<calcIndex, calc, tau, linewidths, mu>>
           ELSE /\ calcIndex' = r.val
                /\ IF ~InBounds(r.val, data.nCalc)
                   THEN /\ Raise("IndexError", MsgIndex)
                        /\ UNCHANGED <<calc, tau, linewidths, mu>>
                   ELSE LET pos == PyPos(r.val, data.nCalc)
                        IN  \E c \in Calcs(pos - 1, {FALSE}) :
                             /\ calc' = c
                             /\ tau' = NoneToZeroArray(c.relaxationTimes)
                             /\ linewidths' = c.linewidths
                             /\ mu' = data.chemicalPotentials[pos]
                             /\ pc' = "load2" /\ UNCHANGED err
    /\ UNCHANGED <<script, args, data, data2, energies, it, y, curves, bands,
                   ylim, saved>>

\* lines 150-162
PathLoad2 ==
    /\ script = "tau_path" /\ pc = "load2"
    /\ \E d \in Files2(calc.nk, calc.nb) :
        /\ data2' = d
        /\ IF "highSymLabels" \notin d.keys
           THEN Raise("KeyError", MsgNoLabels) /\ UNCHANGED energies
           ELSE LET k == FirstMissing(<<"highSymIndices", "wavevectorIndices",
                                        "energies">>, d)
                IN  IF k # ""
                    THEN Raise("KeyError", k) /\ UNCHANGED energies
                    ELSE /\ energies' = d.energies
                         /\ pc' = "plotTau" /\ UNCHANGED err
    /\ UNCHANGED <<script, args, data, calc, calcIndex, tau, linewidths, mu,
                   it, y, curves, bands, ylim, saved>>

\* punchPlotTau, lines 9-28: the loop over the bands.  y is a view of tau,
\* so the replaced values are written into tau as well.
PlotTauCurves ==
    /\ script = "tau_path" /\ pc = "plotTau"
    /\ LET nbands == Len(tau[1])
           r(ib)  == ReplaceZeros(Column(tau, ib))
           bad    == {ib \in 1..nbands : ~r(ib).ok}
           drawn  == IF bad = {} THEN nbands ELSE Min(bad) - 1
       IN  /\ tau' = [k \in 1..Len(tau) |-> [ib \in 1..nbands |->
                         IF ib <= drawn THEN r(ib).y[k] ELSE tau[k][ib]]]
           /\ curves' = [ib \in 1..drawn |-> r(ib).y]
           /\ IF bad # {} THEN Raise("IndexError", MsgNoPoints)
              ELSE pc' = "finishTau" /\ UNCHANGED err
    /\ ylim' = <<>>
    /\ UNCHANGED <<script, args, data, data2, calc, calcIndex, linewidths,
                   energies, mu, it, y, bands, saved>>

\* punchPlotTau, lines 30-50
PlotTauFinish ==
    /\ script = "tau_path" /\ pc = "finishTau"
    /\ LET k == FirstMissing(<<"particleType", "relaxationTimeUnit">>, data)
           flattenedTau == SelectSeq(flatten(tau), NonZero)
       IN  IF k # ""
           THEN Raise("KeyError", k) /\ UNCHANGED <<ylim, saved>>
           ELSE IF flattenedTau = <<>>
           THEN Raise("ValueError", MsgEmptyMin) /\ UNCHANGED <<ylim, saved>>
           ELSE /\ ylim' = LogLimits(flattenedTau)
                /\ saved' = Append(saved, PathPlotFileName(args.INPUT))
                /\ pc' = "bandTau" /\ UNCHANGED err
    /\ UNCHANGED <<script, args, data, data2, calc, calcIndex, tau, linewidths,
                   energies, mu, it, y, curves, bands>>

\* punchPlotBandTau, lines 54-104, called with energy = energies,
\* linewidth = lwidths and mu = the selected chemical potential
PlotBandTau ==
    /\ script = "tau_path" /\ pc = "bandTau"
    /\ LET magFactor == IF data.particleType = "phonon" THEN MagPhonon
                        ELSE MagOther
           shifted   == ShiftEnergy(energies, <<mu>>)
           numBands  == Len(shifted[1])
       IN  /\ energies' = shifted
           /\ curves' = <<>>
           /\ ylim' = <<>>
           /\ IF "energyUnit" \notin data2.keys
              THEN Raise("KeyError", "energyUnit") /\ UNCHANGED <<bands, saved>>
              ELSE /\ bands' = [i \in 1..numBands |->
                        [line  |-> Column(shifted, i),
                         lower |-> [k \in 1..Len(shifted) |->
                             shifted[k][i] - linewidths[k][i] * magFactor],
                         upper |-> [k \in 1..Len(shifted) |->
                             shifted[k][i] + linewidths[k][i] * magFactor]]]
                   /\ saved' = Append(saved, PathPlotFileName(args.INPUT2))
                   /\ pc' = "done" /\ UNCHANGED err
    /\ UNCHANGED <<script, args, data, data2, calc, calcIndex, tau, linewidths,
                   mu, it, y>>

Next ==
    \/ EpaParseIndex
    \/ EpaLoad
    \/ EpaUnpack
    \/ EpaSelect
    \/ EpaPlot
    \/ EpaLimits
    \/ EpaSave
    \/ PathLoad
    \/ PathUnpack
    \/ PathSelect
    \/ PathLoad2
    \/ PlotTauCurves
    \/ PlotTauFinish
    \/ PlotBandTau

Spec == Init /\ [][Next]_vars

(* ------------------------------ properties ----------------------------- *)

Loaded(d) == d # <<>>

Ended == pc \in {"done", "error"}

\* the keys the running script needs in its relaxation-time file
RequiredKeys == IF script = "epa_tau" THEN EpaKeys ELSE PathKeys

\* the text of an integer: an optional sign and at least one digit
IsIntegerText(s) ==
    \E sign \in {<<>>, <<"-">>, <<"+">>} : \E n \in 1..Len(s) :
        /\ Len(s) = Len(sign) + n
        /\ SubSeq(s, 1, Len(sign)) = sign
        /\ \A i \in (Len(sign) + 1)..Len(s) :
               s[i] \in {"0", "1", "2", "3", "4", "5", "6", "7", "8", "9"}

\* the error messages that name a wrong input file as the likely cause
WrongFileMessages ==
    {"relaxation times not found.Are you using the correct input json file?",
     "highSymLabels not found. Are you using the correct input json file?"}

\* C1 as stated: a run on a file that lacks a required key ends in an error
\* whose message names the wrong input file as the likely cause
C1_AnyMissingKeyNamesWrongFile ==
    (Ended /\ ( (Loaded(data) /\ data.keys # RequiredKeys)
                \/ (Loaded(data2) /\ data2.keys # Path2Keys) ))
        => (pc = "error" /\ err.msg \in WrongFileMessages)

\* C1: a file without relaxationTimes, or a band-structure file without
\* highSymLabels, ends the run in a KeyError with the wrong-file message;
\* a KeyError for any other key carries the missing key's name alone
C1_SentinelKeysNameWrongFile ==
    /\ (Loaded(data) /\ "relaxationTimes" \notin data.keys)
          => (pc = "error" /\ err.kind = "KeyError"
              /\ err.msg = "relaxation times not found.Are you using the correct input json file?")
    /\ (Loaded(data2) /\ "highSymLabels" \notin data2.keys)
          => (pc = "error" /\ err.kind = "KeyError"
              /\ err.msg = "highSymLabels not found. Are you using the correct input json file?")
    /\ (pc = "error" /\ err.kind = "KeyError" /\ err.msg \notin WrongFileMessages)
          => /\ err.msg \notin {"relaxationTimes", "highSymLabels"}
             /\ \/ (Loaded(data) /\ err.msg \notin data.keys
                    /\ err.msg \in EpaKeys \cup PathKeys)
                \/ (Loaded(data2) /\ err.msg \notin data2.keys
                    /\ err.msg \in Path2Keys)
    /\ (pc = "error" /\ err.msg \in WrongFileMessages)
          => \/ (Loaded(data) /\ "relaxationTimes" \notin data.keys)
             \/ (Loaded(data2) /\ "highSymLabels" \notin data2.keys)

C1_Witness ==
    /\ pc = "error" /\ script = "tau_path" /\ Loaded(data2)
    /\ "highSymLabels" \notin data2.keys
    /\ err.msg \in WrongFileMessages

\* C2 as stated: a calcIndex that is not the text of an integer ends the
\* run in a type error, and no plot is produced
C2_NonIntegerIsTypeError ==
    (Ended /\ ~IsIntegerText(args.calcIndex))
        => (pc = "error" /\ err.kind = "TypeError" /\ saved = <<>>)

\* C2: a calcIndex that is not the text of an integer never lets the run
\* complete and no plot is written; the conversion raises a ValueError
\* (first thing in epa_tau; in tau_path after the first file is unpacked,
\* so a KeyError for one of its first four keys can end the run before)
C2_NonIntegerIsValueError ==
    ~IsIntegerText(args.calcIndex) =>
        /\ pc # "done" /\ saved = <<>> /\ curves = <<>>
        /\ (pc # "error") => (pc \in {"start", "unpack", "select"}
                              /\ ENABLED Next)
        /\ (pc = "error" /\ script = "epa_tau") =>
               (err.kind = "ValueError"
                /\ err.msg = "calcIndex should be an integer"
                /\ ~Loaded(data))
        /\ (pc = "error" /\ script = "tau_path") =>
               \/ err.kind = "ValueError"
                  /\ err.msg = "invalid literal for int() with base 10"
                  /\ {"relaxationTimes", "linewidths", "chemicalPotentials",
                      "temperatures"} \subseteq data.keys
               \/ err.kind = "KeyError"
                  /\ {"relaxationTimes", "linewidths", "chemicalPotentials",
                      "temperatures"} \ data.keys # {}

C2_Witness ==
    /\ ~IsIntegerText(args.calcIndex)
    /\ pc = "error" /\ script = "tau_path" /\ err.kind = "ValueError"

(* the file name an input path yields once its extension is dropped *)
WithoutExtension(p) ==
    CASE p = <<"a", ".", "j">> -> <<"a">>
      [] p = <<"a", ".", "k">> -> <<"a">>
      [] p = <<"d", ".", "d", "/", "a">> -> <<"d", ".", "d", "/", "a">>
      [] p = <<".", "a">> -> <<".", "a">>

TauPng == <<".", "t", "a", "u", ".", "p", "n", "g">>
GammaPng == <<".", "g", "a", "m", "m", "a", ".", "p", "n", "g">>
TauPdf == <<".", "t", "a", "u", ".", "p", "d", "f">>

\* the files a successful run is to write
ExpectedFiles ==
    IF script = "epa_tau"
    THEN {WithoutExtension(args.INPUT) \o TauPng,
          WithoutExtension(args.INPUT) \o GammaPng}
    ELSE {WithoutExtension(args.INPUT) \o TauPdf,
          WithoutExtension(args.INPUT2) \o TauPdf}

\* C3: a successful run of epa_tau.py writes exactly <INPUT without
\* extension>.tau.png and .gamma.png, one of tau_path.py exactly <INPUT
\* without extension>.tau.pdf and <INPUT2 without extension>.tau.pdf; no
\* other file is written at any point of any run
C3_OutputFileNames ==
    /\ Range(saved) \subseteq ExpectedFiles
    /\ pc = "done" => (Range(saved) = ExpectedFiles /\ Len(saved) = 2)

C3_Witness ==
    /\ pc = "done" /\ script = "epa_tau"
    /\ args.INPUT = <<"d", ".", "d", "/", "a">>
    /\ saved = << <<"d", ".", "d", "/", "a">> \o TauPng,
                  <<"d", ".", "d", "/", "a">> \o GammaPng >>

\* C4 as stated: a run on a malformed input (a missing required key, a
\* calcIndex that is no integer or is not one of 0..N-1, negative ones
\* included) never completes as a successful run
C4_FailFastOnMalformedInput ==
    pc = "done" =>
        /\ data.keys = RequiredKeys
        /\ script = "tau_path" => data2.keys = Path2Keys
        /\ IsIntegerText(args.calcIndex)
        /\ calcIndex \in 0..(data.nCalc - 1)

\* a log-scale figure has just been written with the limits `ylim`
EpaJustSaved == script = "epa_tau" /\ saved # <<>> /\ pc \in {"plot", "done"}
PathJustSaved == script = "tau_path" /\ pc = "bandTau"

\* the values at or above which no zero was dropped: the nonzero values of
\* the figure just written
PlottedNonZero ==
    IF script = "epa_tau" THEN {v \in Range(y) : v # 0}
    ELSE {v \in Range(flatten(tau)) : v # 0}

\* the exponent of the power of ten nearest to v (on the log scale)
NearestExp(v) ==
    LET e == CHOOSE d \in 0..9 : Pow10(d) <= v /\ v < Pow10(d + 1)
    IN  IF v * v < Pow10(2 * e + 1) THEN e ELSE e + 1

FileTau == NoneToZeroArray(calc.relaxationTimes)

CurvesDrawn == script = "tau_path" /\ pc \in {"finishTau", "bandTau"}

\* C6 as stated: a zero is drawn with the value of the preceding point, a
\* zero at the first point with the value of the following point, and
\* IndexError "Not enough points in path?" is raised exactly when a zero has
\* neither neighbour
C6_ZeroTakesNeighbour ==
    /\ CurvesDrawn =>
        \A b \in 1..calc.nb : \A k \in 1..calc.nk :
            FileTau[k][b] = 0 =>
                /\ k > 1 => curves[b][k] = FileTau[k - 1][b]
                /\ (k = 1 /\ calc.nk > 1) => curves[b][k] = FileTau[2][b]
                /\ calc.nk > 1
    /\ (pc = "error" /\ err.msg = "Not enough points in path?") =>
        (calc.nk = 1 /\ \E b \in 1..calc.nb : FileTau[1][b] = 0)

\* C7 as stated: once the zeros are replaced, a band with a nonzero
\* relaxation time somewhere on the path has no zero in its curve
C7_NoZeroLeftInBand ==
    CurvesDrawn =>
        \A b \in 1..calc.nb :
            (\E k \in 1..calc.nk : FileTau[k][b] # 0)
                => \A k \in 1..calc.nk : curves[b][k] # 0

\* the 1-based place of the calculation that calcIndex selects
SelectedPlace == IF calcIndex < 0 THEN data.nCalc + calcIndex + 1
                 ELSE calcIndex + 1

\* C8: punchPlotBandTau draws, for every band i, the energies of the
\* band-structure file shifted once by the chemical potential of the selected
\* calculation (not shifted when mu is None), and shades energy -+
\* magFactor * linewidth around that curve, magFactor being 10 for phonons
\* and 5 otherwise
C8_BandCurvesShiftedOnce ==
    /\ (script = "tau_path" /\ pc = "done") =>
        LET m   == data.chemicalPotentials[SelectedPlace]
            mag == IF data.particleType = "phonon" THEN 10 ELSE 5
        IN  /\ Len(bands) = calc.nb
            /\ \A i \in 1..calc.nb : \A k \in 1..calc.nk :
                /\ bands[i].line[k] = data2.energies[k][i] - m
                /\ bands[i].lower[k] =
                       data2.energies[k][i] - m - mag * calc.linewidths[k][i]
                /\ bands[i].upper[k] =
                       data2.energies[k][i] - m + mag * calc.linewidths[k][i]
    /\ (script = "tau_path" /\ Loaded(data2) /\ "energies" \in data2.keys) =>
        ShiftEnergy(data2.energies, <<>>) = data2.energies

C8_Witness ==
    /\ script = "tau_path" /\ pc = "done"
    /\ data.particleType = "phonon" /\ calc.nb = 2 /\ calc.nk = 3
    /\ bands[2].line[3] = data2.energies[3][2] - 4
    /\ bands[2].lower[3] < bands[2].line[3]

\* C9 as stated: a run that ends in an error has written no image file
C9_NoFileAfterError ==
    pc = "error" => saved = <<>>

\* C9: a run that ends in an error has written at most one file, the first
\* plot's (<INPUT without extension>.tau.png or .tau.pdf), and has it only
\* when the error came up in the second plot; two files exist only after a
\* successful run
C9_AtMostFirstFileAfterError ==
    /\ pc = "error" => Len(saved) <= 1
    /\ Len(saved) = 2 => pc = "done"
    /\ (pc = "error" /\ saved # <<>>) =>
        IF script = "epa_tau"
        THEN /\ saved = <<WithoutExtension(args.INPUT) \o TauPng>>
             /\ it = 2
             /\ \/ err = [kind |-> "KeyError", msg |-> "linewidthsUnit"]
                \/ err.kind = "ValueError" /\ \A i \in 1..Len(linewidths) :
                                                 linewidths[i] <= 0
        ELSE /\ saved = <<WithoutExtension(args.INPUT) \o TauPdf>>
             /\ err = [kind |-> "KeyError", msg |-> "energyUnit"]

C9_Witness ==
    /\ pc = "error" /\ script = "epa_tau" /\ Len(saved) = 1
    /\ err.kind = "ValueError"

====
